---- MODULE Spec2Model ----
(***************************************************************************)
(* Model of the two pipelines of mta_all_nyc_buses:                        *)
(*   convert_gtfs.py    convert(): GTFS trips/shapes -> one geometry per   *)
(*                      canonical route id                                 *)
(*   lambda_function.py get_borough_from_route() and lambda_handler():     *)
(*                      live vehicle feed -> enriched bus list and counts  *)
(* Strings are sequences of one-character strings.                         *)
(***************************************************************************)
EXTENDS Integers, Sequences, FiniteSets, TLC

VARIABLES
    \* route-id normalisation applied to one trips.txt cell
    npc, raw_route, norm1, norm2,
    \* get_borough_from_route applied to one route code
    kpc, route, classification,
    \* convert()
    cpc, folder, shape_to_route, shape_points, rows_read,
    route_shapes, features, mapped,
    \* lambda_handler()
    lpc, api_key, net_calls, n, activity, buses, borough_counts,
    route_counts, response

normVars == <<npc, raw_route, norm1, norm2>>
classVars == <<kpc, route, classification>>
convVars == <<cpc, folder, shape_to_route, shape_points, rows_read,
              route_shapes, features, mapped>>
lamVars == <<lpc, api_key, net_calls, n, activity, buses, borough_counts,
             route_counts, response>>
vars == <<normVars, classVars, convVars, lamVars>>

----------------------------------------------------------------------------
\* Bounds of the model

MaxNormLen == 4
MaxClassLen == 3
MaxFolders == 2
MaxTrips == 2
MaxRows == 3
MaxVehicles == 3

----------------------------------------------------------------------------
\* Characters and strings

Letters == {"A","B","C","D","E","I","K","L","M","N","O","Q","R","S","T","U","V","X","Z",
            "a","b","d","e","i","k","m","n","o","q","r","s","t","u","w","x","z"}
Digits == {"0","1","2","3","4","5","6","7","8","9"}
Whitespace == {" "}

\* str.upper() on the characters used
Upper(c) ==
    CASE c = "a" -> "A" [] c = "b" -> "B" [] c = "d" -> "D" [] c = "e" -> "E"
      [] c = "i" -> "I" [] c = "k" -> "K" [] c = "m" -> "M" [] c = "n" -> "N"
      [] c = "o" -> "O" [] c = "q" -> "Q" [] c = "r" -> "R" [] c = "s" -> "S"
      [] c = "t" -> "T" [] c = "u" -> "U" [] c = "w" -> "W" [] c = "x" -> "X"
      [] c = "z" -> "Z" [] OTHER -> c

UpperStr(s) == [i \in 1..Len(s) |-> Upper(s[i])]

StartsWith(s, p) == Len(s) >= Len(p) /\ SubSeq(s, 1, Len(p)) = p

EndsWith(s, p) == Len(s) >= Len(p) /\ SubSeq(s, Len(s) - Len(p) + 1, Len(s)) = p

\* all strings over alphabet A of length at most k
StringsUpTo(A, k) == UNION {[1..m -> A] : m \in 0..k}

\* str.strip(): drop leading and trailing whitespace
Strip(s) ==
    LET keep == {i \in 1..Len(s) : s[i] \notin Whitespace}
    IN  IF keep = {} THEN <<>>
        ELSE LET lo == CHOOSE i \in keep : \A j \in keep : i <= j
                 hi == CHOOSE i \in keep : \A j \in keep : i >= j
             IN  SubSeq(s, lo, hi)

----------------------------------------------------------------------------
\* convert(): route identifier normalisation (convert_gtfs.py 45-59)

RouteIdHeader == <<"r","o","u","t","e","_","i","d">>

\* route_id.split('_')[-1] if '_' in route_id else route_id
StripAgency(s) ==
    LET us == {i \in 1..Len(s) : s[i] = "_"}
    IN  IF us = {} THEN s
        ELSE LET last == CHOOSE i \in us : \A j \in us : i >= j
             IN  SubSeq(s, last + 1, Len(s))

\* if route_id.endswith('+'): route_id = route_id[:-1] + '-SBS'
SbsRewrite(s) ==
    IF EndsWith(s, <<"+">>) THEN SubSeq(s, 1, Len(s) - 1) \o <<"-","S","B","S">>
    ELSE s

\* if route_id.startswith('BX'): route_id = 'Bx' + route_id[2:]
BxFix(s) ==
    IF StartsWith(s, <<"B","X">>) THEN <<"B","x">> \o SubSeq(s, 3, Len(s))
    ELSE s

\* length of the maximal run of characters of set A in s starting at index i
RECURSIVE RunLen(_, _, _)
RunLen(s, i, A) ==
    IF i <= Len(s) /\ s[i] \in A THEN 1 + RunLen(s, i + 1, A) ELSE 0

\* variant with the pattern '^([A-Za-z]+)0(\d)': one zero removed per pass
StripOneZero(s) ==
    LET a == RunLen(s, 1, Letters)
    IN  IF a >= 1 /\ a + 2 <= Len(s) /\ s[a + 1] = "0" /\ s[a + 2] \in Digits
        THEN SubSeq(s, 1, a) \o SubSeq(s, a + 2, Len(s))
        ELSE s

\* re.sub(r'^([A-Za-z]+)0+(\d)', r'\1\2', route_id): the letter run must be
\* followed by zeros; the greedy 0+ takes every zero when a digit follows the
\* run of zeros and otherwise gives the last zero back to \d
StripZeros(s) ==
    LET a == RunLen(s, 1, Letters)
        z == RunLen(s, a + 1, {"0"})
        after == a + z + 1
    IN  IF a = 0 \/ z = 0 THEN s
        ELSE IF after <= Len(s) /\ s[after] \in Digits
             THEN SubSeq(s, 1, a) \o SubSeq(s, after, Len(s))
        ELSE IF z >= 2
             THEN SubSeq(s, 1, a) \o SubSeq(s, after - 1, Len(s))
        ELSE s

\* The body of `if shape_id and route_id:` for a non-empty route_id: the
\* value stored in shape_to_route, or kept = FALSE for the `continue`
NormalizeRoute(route_id) ==
    LET a == StripAgency(route_id)
    IN  IF a = RouteIdHeader THEN [kept |-> FALSE, id |-> <<>>]
        ELSE [kept |-> TRUE, id |-> StripZeros(BxFix(SbsRewrite(a)))]

----------------------------------------------------------------------------
\* get_borough_from_route (lambda_function.py 19-49)

\* Python values: t is the type, v the characters of a str or of the decimal
\* form of an int, or the elements of a list
PyAbsent == [t |-> "absent", v |-> <<>>]
PyNone == [t |-> "None", v |-> <<>>]
PyStr(s) == [t |-> "str", v |-> s]
PyInt(ds) == [t |-> "int", v |-> ds]
PyList(l) == [t |-> "list", v |-> l]
PyFloat(ds) == [t |-> "float", v |-> ds]
\* a dict is modelled by the values of the keys the handler reads, in order
PyDict(vals) == [t |-> "dict", v |-> vals]

\* bool(x)
Truthy(x) ==
    CASE x.t = "None" -> FALSE
      [] x.t = "str" -> x.v # <<>>
      [] x.t = "list" -> x.v # <<>>
      [] x.t = "int" -> x.v # <<"0">>
      [] x.t = "float" -> x.v # <<"0",".","0">>
      [] x.t = "dict" -> x.v # <<>>
      [] OTHER -> FALSE

HasLen(x) == x.t \in {"str", "list"}

Info(nm, col) == [raises |-> FALSE, name |-> nm, color |-> col]
Raised == [raises |-> TRUE, name |-> "", color |-> ""]

\* variant that tests the bare BX prefix before the express prefixes
get_borough_bx_first(rt) ==
    IF ~Truthy(rt) THEN Info("Unknown", "#6b7280")
    ELSE IF ~HasLen(rt) THEN Raised
    ELSE IF rt.t # "str" THEN Raised
    ELSE LET route_upper == UpperStr(rt.v)
             prefix == route_upper[1]
         IN  IF StartsWith(route_upper, <<"B","X">>) THEN Info("Bronx", "#2563eb")
             ELSE IF StartsWith(route_upper, <<"B","X","M">>) THEN Info("Express", "#8b5cf6")
             ELSE IF StartsWith(route_upper, <<"Q","M">>) THEN Info("Express", "#8b5cf6")
             ELSE IF StartsWith(route_upper, <<"B","M">>) THEN Info("Express", "#8b5cf6")
             ELSE IF StartsWith(route_upper, <<"S","I","M">>) THEN Info("Express", "#8b5cf6")
             ELSE IF StartsWith(route_upper, <<"X">>) THEN Info("Express", "#8b5cf6")
             ELSE IF prefix = "M" THEN Info("Manhattan", "#1e40af")
             ELSE IF prefix = "B" THEN Info("Brooklyn", "#60a5fa")
             ELSE IF prefix = "Q" THEN Info("Queens", "#3b82f6")
             ELSE IF prefix = "S" THEN Info("Staten Island", "#93c5fd")
             ELSE Info("Unknown", "#6b7280")

\* `not route or len(route) == 0` raises TypeError on a truthy value without
\* len(); route.upper() raises AttributeError on a non-str
get_borough_from_route(rt) ==
    IF ~Truthy(rt) THEN Info("Unknown", "#6b7280")
    ELSE IF ~HasLen(rt) THEN Raised
    ELSE IF rt.t # "str" THEN Raised
    ELSE LET route_upper == UpperStr(rt.v)
             prefix == route_upper[1]
         IN  IF StartsWith(route_upper, <<"B","X","M">>) THEN Info("Express", "#8b5cf6")
             ELSE IF StartsWith(route_upper, <<"Q","M">>) THEN Info("Express", "#8b5cf6")
             ELSE IF StartsWith(route_upper, <<"B","M">>) THEN Info("Express", "#8b5cf6")
             ELSE IF StartsWith(route_upper, <<"S","I","M">>) THEN Info("Express", "#8b5cf6")
             ELSE IF StartsWith(route_upper, <<"X">>) THEN Info("Express", "#8b5cf6")
             ELSE IF StartsWith(route_upper, <<"B","X">>) THEN Info("Bronx", "#2563eb")
             ELSE IF prefix = "M" THEN Info("Manhattan", "#1e40af")
             ELSE IF prefix = "B" THEN Info("Brooklyn", "#60a5fa")
             ELSE IF prefix = "Q" THEN Info("Queens", "#3b82f6")
             ELSE IF prefix = "S" THEN Info("Staten Island", "#93c5fd")
             ELSE Info("Unknown", "#6b7280")

----------------------------------------------------------------------------
\* convert() (convert_gtfs.py 20-115)

\* Python dicts keep insertion order: a dict is a sequence of entries
\* [key, val]; assigning to an existing key keeps the key's position
ODHas(od, k) == \E i \in 1..Len(od) : od[i].key = k

ODGet(od, k) == od[CHOOSE i \in 1..Len(od) : od[i].key = k].val

ODSet(od, k, x) ==
    IF ODHas(od, k)
    THEN [i \in 1..Len(od) |-> IF od[i].key = k THEN [key |-> k, val |-> x] ELSE od[i]]
    ELSE Append(od, [key |-> k, val |-> x])

\* cells of a csv.DictReader row: a number, a non-numeric text, or None, the
\* restval of a row with fewer fields than the header
NumCell(x) == [k |-> "num", val |-> x]
TextCell == [k |-> "text", val |-> 0]
NoneCell == [k |-> "none", val |-> 0]

\* float(cell) / int(cell): the value, ValueError on text, TypeError on None
ParseNum(c) ==
    CASE c.k = "num" -> [ok |-> TRUE, exc |-> "", val |-> c.val]
      [] c.k = "text" -> [ok |-> FALSE, exc |-> "ValueError", val |-> 0]
      [] OTHER -> [ok |-> FALSE, exc |-> "TypeError", val |-> 0]

ShapeIds == {"s1", "s2"}

\* trips.txt cells the model draws from
RawRouteCells == { <<"Q","0","6">>, <<"X","_","Q","6">>, <<"M","1","5">>, <<" ">> }
TripRows == [shape_id : ShapeIds, route_id : RawRouteCells]
TripTables == UNION {[1..m -> TripRows] : m \in 0..MaxTrips}

\* shapes.txt rows the model draws from; the longitude of a row is its
\* position in the run, so that every point is distinguishable
LatCells == {NumCell(40), TextCell, NoneCell}
SeqCells == {NumCell(1), NumCell(2)}

\* lines 42-59: one pass over trips.txt
RECURSIVE ReadTripRows(_, _, _)
ReadTripRows(trips, i, s2r) ==
    IF i > Len(trips) THEN s2r
    ELSE LET shape_id == trips[i].shape_id
             route_id == Strip(trips[i].route_id)
             nr == NormalizeRoute(route_id)
         IN  IF shape_id # "" /\ route_id # <<>> /\ nr.kept
             THEN ReadTripRows(trips, i + 1, ODSet(s2r, shape_id, nr.id))
             ELSE ReadTripRows(trips, i + 1, s2r)

\* points.sort(key=lambda x: x[0]): stable insertion sort on the sequence
RECURSIVE InsertBySeq(_, _)
InsertBySeq(sorted, p) ==
    IF sorted = <<>> THEN <<p>>
    ELSE IF sorted[Len(sorted)].seq <= p.seq THEN Append(sorted, p)
    ELSE Append(InsertBySeq(SubSeq(sorted, 1, Len(sorted) - 1), p), sorted[Len(sorted)])

RECURSIVE SortBySeq(_)
SortBySeq(points) ==
    IF points = <<>> THEN <<>>
    ELSE InsertBySeq(SortBySeq(SubSeq(points, 1, Len(points) - 1)), points[Len(points)])

Coords(points) == [i \in 1..Len(points) |-> <<points[i].lng, points[i].lat>>]

\* lines 77-88: one pass over shape_points; st carries route_shapes and the
\* log of every (route, shape, coords) stored at line 88
RECURSIVE MapShapesLoop(_, _, _, _)
MapShapesLoop(sp, i, s2r, st) ==
    IF i > Len(sp) THEN st
    ELSE LET shape_id == sp[i].key
             has == ODHas(s2r, shape_id) /\ ODGet(s2r, shape_id) # <<>>
         IN  IF ~has THEN MapShapesLoop(sp, i + 1, s2r, st)
             ELSE LET route_id == ODGet(s2r, shape_id)
                      coords == Coords(SortBySeq(sp[i].val))
                      shapes == IF ODHas(st.rs, route_id) THEN ODGet(st.rs, route_id) ELSE <<>>
                      rs2 == ODSet(st.rs, route_id, ODSet(shapes, shape_id, coords))
                      log2 == Append(st.log, [route_id |-> route_id, shape_id |-> shape_id,
                                              coords |-> coords])
                  IN  MapShapesLoop(sp, i + 1, s2r, [rs |-> rs2, log |-> log2])

\* max(shapes.values(), key=len): the first value of maximal length
Longest(shapes) ==
    LET best == CHOOSE i \in 1..Len(shapes) :
                  /\ \A j \in 1..Len(shapes) : Len(shapes[j].val) <= Len(shapes[i].val)
                  /\ \A j \in 1..(i - 1) : Len(shapes[j].val) < Len(shapes[i].val)
    IN  shapes[best].val

ConvIdle ==
    /\ cpc = "idle" /\ folder = 0
    /\ shape_to_route = <<>> /\ shape_points = <<>> /\ rows_read = <<>>
    /\ route_shapes = <<>> /\ features = <<>> /\ mapped = <<>>

ConvInit ==
    /\ cpc = "next_folder" /\ folder = 0
    /\ shape_to_route = <<>> /\ shape_points = <<>> /\ rows_read = <<>>
    /\ route_shapes = <<>> /\ features = <<>> /\ mapped = <<>>

\* lines 26-35: the folder, trips.txt or shapes.txt does not exist
SkipFolder ==
    /\ cpc = "next_folder" /\ folder < MaxFolders
    /\ folder' = folder + 1
    /\ UNCHANGED <<cpc, shape_to_route, shape_points, rows_read,
                   route_shapes, features, mapped>>
    /\ UNCHANGED <<normVars, classVars, lamVars>>

\* lines 40-63: trips.txt is read into shape_to_route and shapes.txt opened
ReadTrips ==
    /\ cpc = "next_folder" /\ folder < MaxFolders
    /\ \E trips \in TripTables : shape_to_route' = ReadTripRows(trips, 1, <<>>)
    /\ folder' = folder + 1
    /\ shape_points' = <<>>
    /\ cpc' = "shapes"
    /\ UNCHANGED <<rows_read, route_shapes, features, mapped>>
    /\ UNCHANGED <<normVars, classVars, lamVars>>

\* lines 64-74: one row of shapes.txt, whose header has the three columns
\* read; (ValueError, KeyError) skips the row, any other exception leaves
\* convert()
ReadShapeRow ==
    /\ cpc = "shapes" /\ Len(rows_read) < MaxRows
    /\ \E sid \in ShapeIds, latc \in LatCells, seqc \in SeqCells :
         LET row == [shape_id |-> sid, lat |-> latc,
                     lng |-> NumCell(Len(rows_read) + 1), seq |-> seqc,
                     folder |-> folder]
             lat == ParseNum(latc)
             lng == IF lat.ok THEN ParseNum(row.lng) ELSE lat
             seq == IF lng.ok THEN ParseNum(seqc) ELSE lng
             pts == IF ODHas(shape_points, sid) THEN ODGet(shape_points, sid) ELSE <<>>
         IN  /\ rows_read' = Append(rows_read, row)
             /\ IF seq.ok
                THEN /\ shape_points' = ODSet(shape_points, sid,
                            Append(pts, [seq |-> seq.val, lng |-> lng.val, lat |-> lat.val]))
                     /\ cpc' = cpc
                ELSE IF seq.exc \in {"ValueError", "KeyError"}
                THEN UNCHANGED <<shape_points, cpc>>
                ELSE /\ cpc' = "crashed"
                     /\ UNCHANGED shape_points
    /\ UNCHANGED <<folder, shape_to_route, route_shapes, features, mapped>>
    /\ UNCHANGED <<normVars, classVars, lamVars>>

\* lines 77-88: end of shapes.txt, the shapes of the folder go to their routes
MapShapes ==
    /\ cpc = "shapes"
    /\ LET st == MapShapesLoop(shape_points, 1, shape_to_route,
                               [rs |-> route_shapes, log |-> mapped])
       IN  /\ route_shapes' = st.rs
           /\ mapped' = st.log
    /\ cpc' = "next_folder"
    /\ UNCHANGED <<folder, shape_to_route, shape_points, rows_read, features>>
    /\ UNCHANGED <<normVars, classVars, lamVars>>

\* lines 91-112: one feature per route, with its longest shape
BuildGeoJSON ==
    /\ cpc = "next_folder" /\ folder = MaxFolders
    /\ features' = [i \in 1..Len(route_shapes) |->
                      [route_id |-> route_shapes[i].key,
                       coordinates |-> Longest(route_shapes[i].val)]]
    /\ cpc' = "done"
    /\ UNCHANGED <<folder, shape_to_route, shape_points, rows_read,
                   route_shapes, mapped>>
    /\ UNCHANGED <<normVars, classVars, lamVars>>

NextConvert == SkipFolder \/ ReadTrips \/ ReadShapeRow \/ MapShapes \/ BuildGeoJSON

----------------------------------------------------------------------------
\* lambda_handler (lambda_function.py 51-167)

\* str.replace(old, ''): every non-overlapping occurrence, left to right
RECURSIVE RemoveAll(_, _)
RemoveAll(s, old) ==
    IF s = <<>> THEN <<>>
    ELSE IF StartsWith(s, old) THEN RemoveAll(SubSeq(s, Len(old) + 1, Len(s)), old)
    ELSE <<s[1]>> \o RemoveAll(SubSeq(s, 2, Len(s)), old)

\* line 132
CleanVehicleRef(s) ==
    RemoveAll(RemoveAll(RemoveAll(RemoveAll(RemoveAll(s,
        <<"M","T","A"," ","N","Y","C","T","_">>), <<"M","T","A","B","C","_">>), <<"M","T","A"," ","Q","V","C","_">>), <<"M","T","A"," ","B","R","K","L","M","_">>), <<"M","T","A"," ","S","I","_">>)

UnknownStr == <<"U","n","k","n","o","w","n">>

\* str(x) as an f-string formats it
PyFormat(x) ==
    CASE x.t = "None" -> <<"N","o","n","e">>
      [] x.t = "list" -> <<"[","]">>
      [] OTHER -> x.v

\* dict.get(key, default) of a key that may be absent
GetOr(x, default) == IF x.t = "absent" THEN default ELSE x

\* lines 98-105
PublishedLine(journey) ==
    LET published_line_raw == GetOr(journey.PublishedLineName, PyStr(<<>>))
    IN  IF published_line_raw.t = "list" /\ Len(published_line_raw.v) > 0
        THEN published_line_raw.v[1]
        ELSE IF published_line_raw.t = "str" THEN published_line_raw
        ELSE PyStr(UnknownStr)

\* lines 123-129: the next stops, or raises when OnwardCalls is truthy and
\* not a dict, or one of its first three calls is not a dict
NextStops(journey) ==
    LET onward_calls == GetOr(journey.OnwardCalls, PyDict(<<>>))
    IN  IF ~Truthy(onward_calls) THEN [raises |-> FALSE, stops |-> <<>>]
        ELSE IF onward_calls.t # "dict" THEN [raises |-> TRUE, stops |-> <<>>]
        ELSE LET calls == onward_calls.v[1].v
                 first3 == SubSeq(calls, 1, IF Len(calls) < 3 THEN Len(calls) ELSE 3)
             IN  IF \E i \in 1..Len(first3) : first3[i].t # "dict"
                 THEN [raises |-> TRUE, stops |-> <<>>]
                 ELSE [raises |-> FALSE,
                       stops |-> [i \in 1..Len(first3) |->
                                    IF first3[i].v = <<>> THEN UnknownStr
                                    ELSE first3[i].v[1].v]]

NoResponse ==
    [statusCode |-> 0, keys |-> {}, error |-> "", buses |-> <<>>, total_count |-> 0,
     borough_counts |-> <<>>, route_counts |-> <<>>]

ErrorResponse(msg) ==
    [statusCode |-> 500, keys |-> {"error"}, error |-> msg, buses |-> <<>>,
     total_count |-> 0, borough_counts |-> <<>>, route_counts |-> <<>>]

\* values of the fields of a vehicle activity record the model draws from
F40 == PyFloat(<<"4","0",".","7">>)
Fm73 == PyFloat(<<"-","7","3",".","9">>)
RefNYCT == PyStr(<<"M","T","A"," ","N","Y","C","T","_","7">>)
CallA == PyDict(<<PyStr(<<"A">>)>>)
CallB == PyDict(<<PyStr(<<"B">>)>>)
CallNoName == PyDict(<<>>)
OnwardOk == PyDict(<<PyList(<<CallA, CallNoName, CallB, CallA>>)>>)
OnwardBadCall == PyDict(<<PyList(<<CallA, PyStr(<<"x">>)>>)>>)
OnwardBadShape == PyStr(<<"x">>)

GoodActivity ==
    [Latitude |-> F40, Longitude |-> Fm73, VehicleRef |-> RefNYCT,
     PublishedLineName |-> PyStr(<<"M","1">>), OnwardCalls |-> PyAbsent]

LatValues == {PyAbsent, PyNone, PyFloat(<<"0",".","0">>)}
LonValues == {PyAbsent}
RefValues == {PyAbsent, PyInt(<<"7">>)}
LineValues == {PyAbsent, PyNone, PyStr(<<"B","x","1">>), PyList(<<>>),
               PyList(<<PyStr(<<"Q","6">>), PyStr(<<"M","1">>)>>),
               PyList(<<PyInt(<<"5">>)>>), PyList(<<PyNone>>), PyInt(<<"5">>)}
OnwardValues == {OnwardOk, OnwardBadCall, OnwardBadShape}

Activities ==
    {GoodActivity}
    \cup {[GoodActivity EXCEPT !.Latitude = x] : x \in LatValues}
    \cup {[GoodActivity EXCEPT !.Longitude = x] : x \in LonValues}
    \cup {[GoodActivity EXCEPT !.VehicleRef = x] : x \in RefValues}
    \cup {[GoodActivity EXCEPT !.PublishedLineName = x] : x \in LineValues}
    \cup {[GoodActivity EXCEPT !.OnwardCalls = x] : x \in OnwardValues}
    \cup {[GoodActivity EXCEPT !.Latitude = PyAbsent, !.VehicleRef = PyInt(<<"7">>)]}

\* the loop variable before the first iteration
NoActivity ==
    [Latitude |-> PyAbsent, Longitude |-> PyAbsent, VehicleRef |-> PyAbsent,
     PublishedLineName |-> PyAbsent, OnwardCalls |-> PyAbsent]

ApiKeys == {PyNone, PyStr(<<>>), PyStr(<<"k">>)}

\* what requests.get / raise_for_status / response.json() / the lookup of
\* line 84 can do
FetchOutcomes == {"ok", "ConnectionError", "Timeout", "HTTPError", "JSONDecodeError",
                  "KeyError"}

\* variant that resets the tally each time the key is seen
CountReset(od, k) == 0

\* lines 113-114 and 118-119: the tally before the increment
Count(od, k) == IF ODHas(od, k) THEN ODGet(od, k) ELSE 0

\* variant that tests the latitude only
SkipVehicleLatOnly(lat, lon) == ~Truthy(lat)

\* line 94: if not lat or not lon
SkipVehicle(lat, lon) == ~Truthy(lat) \/ ~Truthy(lon)

\* variant with a handler around each vehicle: the record is dropped and
\* the loop goes on
SwallowException(msg) ==
    IF lpc = "loop" THEN UNCHANGED <<lpc, response>>
    ELSE lpc' = "returned" /\ response' = ErrorResponse(msg)

\* variant that reports the buses collected before the failure
ReturnPartial(msg) ==
    /\ lpc' = "returned"
    /\ response' = [ErrorResponse(msg) EXCEPT !.keys = {"error", "buses"},
                                             !.buses = buses]

\* lines 159-167: the one handler around the request and the loop
HandleException(msg) ==
    /\ lpc' = "returned"
    /\ response' = ErrorResponse(msg)

LamIdle ==
    /\ lpc = "idle" /\ api_key = PyNone /\ net_calls = 0 /\ n = 0
    /\ activity = NoActivity /\ buses = <<>> /\ borough_counts = <<>>
    /\ route_counts = <<>> /\ response = NoResponse

LamInit ==
    /\ lpc = "start" /\ api_key \in ApiKeys /\ net_calls = 0 /\ n = 0
    /\ activity = NoActivity /\ buses = <<>> /\ borough_counts = <<>>
    /\ route_counts = <<>> /\ response = NoResponse

\* variant that goes to the request without looking at the key
CheckKeyMissing ==
    /\ lpc = "start"
    /\ lpc' = "call"
    /\ UNCHANGED <<api_key, net_calls, n, activity, buses, borough_counts,
                   route_counts, response>>
    /\ UNCHANGED <<normVars, classVars, convVars>>

\* lines 54-63
CheckKey ==
    /\ lpc = "start"
    /\ IF ~Truthy(api_key)
       THEN /\ response' = ErrorResponse("API key not configured")
            /\ lpc' = "returned"
       ELSE /\ lpc' = "call"
            /\ UNCHANGED response
    /\ UNCHANGED <<api_key, net_calls, n, activity, buses, borough_counts, route_counts>>
    /\ UNCHANGED <<normVars, classVars, convVars>>

\* lines 66-86 and, for a failure, 159-167
Fetch ==
    /\ lpc = "call"
    /\ net_calls' = net_calls + 1
    /\ \E outcome \in FetchOutcomes :
         IF outcome = "ok"
         THEN /\ lpc' = "loop"
              /\ UNCHANGED response
         ELSE HandleException(outcome)
    /\ buses' = <<>> /\ borough_counts' = <<>> /\ route_counts' = <<>>
    /\ UNCHANGED <<api_key, n, activity>>
    /\ UNCHANGED <<normVars, classVars, convVars>>

\* lines 88-142: one iteration of the loop over vehicle_activities and, when
\* it raises, the handler of lines 159-167
ProcessVehicle ==
    /\ lpc = "loop" /\ n < MaxVehicles
    /\ \E a \in Activities :
         LET lat == GetOr(a.Latitude, PyNone)
             lon == GetOr(a.Longitude, PyNone)
             vehicle_ref == GetOr(a.VehicleRef, PyStr(UnknownStr))
             published_line == PublishedLine(a)
             borough_info == get_borough_from_route(published_line)
             borough_name == borough_info.name
             route_key == <<borough_name, ":">> \o PyFormat(published_line)
             bc == ODSet(borough_counts, borough_name, Count(borough_counts, borough_name) + 1)
             rc == ODSet(route_counts, route_key, Count(route_counts, route_key) + 1)
             ns == NextStops(a)
             bus_info == [vehicle_id |-> CleanVehicleRef(vehicle_ref.v),
                          route |-> published_line, latitude |-> lat, longitude |-> lon,
                          destination |-> UnknownStr, next_stops |-> ns.stops,
                          borough |-> borough_name, color |-> borough_info.color]
         IN  /\ activity' = a
             /\ n' = n + 1
             /\ IF SkipVehicle(lat, lon)
                THEN UNCHANGED <<lpc, response, buses, borough_counts, route_counts>>
                ELSE IF borough_info.raises
                THEN /\ HandleException("TypeError")
                     /\ UNCHANGED <<buses, borough_counts, route_counts>>
                ELSE IF ns.raises \/ vehicle_ref.t # "str"
                THEN /\ HandleException("AttributeError")
                     /\ borough_counts' = bc /\ route_counts' = rc
                     /\ UNCHANGED buses
                ELSE /\ buses' = Append(buses, bus_info)
                     /\ borough_counts' = bc /\ route_counts' = rc
                     /\ UNCHANGED <<lpc, response>>
    /\ UNCHANGED <<api_key, net_calls>>
    /\ UNCHANGED <<normVars, classVars, convVars>>

\* lines 144-157: the list is exhausted
Return200 ==
    /\ lpc = "loop"
    /\ response' = [statusCode |-> 200,
                    keys |-> {"buses", "total_count", "borough_counts", "route_counts"},
                    error |-> "", buses |-> buses, total_count |-> Len(buses),
                    borough_counts |-> borough_counts, route_counts |-> route_counts]
    /\ lpc' = "returned"
    /\ UNCHANGED <<api_key, net_calls, n, activity, buses, borough_counts, route_counts>>
    /\ UNCHANGED <<normVars, classVars, convVars>>

NextLambda == CheckKey \/ Fetch \/ ProcessVehicle \/ Return200

----------------------------------------------------------------------------
\* The normaliser applied to one route_id cell of trips.txt, and applied
\* again to what it stored

NormAlphabet == {"B", "X", "Q", "0", "6", "+", "_", " "}

NormIdle == npc = "idle" /\ raw_route = <<>> /\ norm1 = [kept |-> FALSE, id |-> <<>>]
            /\ norm2 = [kept |-> FALSE, id |-> <<>>]

NormInit ==
    /\ npc = "start"
    /\ raw_route \in StringsUpTo(NormAlphabet, MaxNormLen)
    /\ norm1 = [kept |-> FALSE, id |-> <<>>]
    /\ norm2 = [kept |-> FALSE, id |-> <<>>]

\* lines 44-59 on the cell: strip, the `if route_id` guard, the rules
NormalizeCell ==
    /\ npc = "start"
    /\ LET route_id == Strip(raw_route)
       IN  norm1' = IF route_id = <<>> THEN [kept |-> FALSE, id |-> <<>>]
                    ELSE NormalizeRoute(route_id)
    /\ npc' = "once"
    /\ UNCHANGED <<raw_route, norm2>>
    /\ UNCHANGED <<classVars, convVars, lamVars>>

\* lines 47-58 on the stored route id
NormalizeAgain ==
    /\ npc = "once" /\ norm1.kept
    /\ norm2' = NormalizeRoute(norm1.id)
    /\ npc' = "twice"
    /\ UNCHANGED <<raw_route, norm1>>
    /\ UNCHANGED <<classVars, convVars, lamVars>>

NextNormalize == NormalizeCell \/ NormalizeAgain

----------------------------------------------------------------------------
\* The classifier applied to one route code

ClassAlphabet == {"B", "b", "X", "x", "M", "m", "Q", "S", "s", "I", "Z", "1"}

ClassIdle == kpc = "idle" /\ route = PyNone /\ classification = Raised

ClassInit ==
    /\ kpc = "start"
    /\ route \in {PyStr(s) : s \in StringsUpTo(ClassAlphabet, MaxClassLen)} \cup {PyNone}
    /\ classification = Raised

Classify ==
    /\ kpc = "start"
    /\ classification' = get_borough_from_route(route)
    /\ kpc' = "done"
    /\ UNCHANGED route
    /\ UNCHANGED <<normVars, convVars, lamVars>>

NextClassify == Classify

----------------------------------------------------------------------------
\* Specifications

InitNormalize == NormInit /\ ClassIdle /\ ConvIdle /\ LamIdle
InitClassify == NormIdle /\ ClassInit /\ ConvIdle /\ LamIdle
InitConvert == NormIdle /\ ClassIdle /\ ConvInit /\ LamIdle
InitLambda == NormIdle /\ ClassIdle /\ ConvIdle /\ LamInit

SpecNormalize == InitNormalize /\ [][NextNormalize]_vars
SpecClassify == InitClassify /\ [][NextClassify]_vars
SpecConvert == InitConvert /\ [][NextConvert]_vars
SpecLambda == InitLambda /\ [][NextLambda]_vars

Init == InitNormalize \/ InitClassify \/ InitConvert \/ InitLambda
Next == NextNormalize \/ NextClassify \/ NextConvert \/ NextLambda
Spec == Init /\ [][Next]_vars

----------------------------------------------------------------------------
\* Properties

\* C1: the route-identifier normaliser is idempotent: for every non-empty
\* raw route code that is not discarded, applying the rules of lines 47-58 to
\* the stored route id gives the stored route id again.
C1_NormalizerIdempotent ==
    npc = "twice" => (norm2.kept /\ norm2.id = norm1.id)

\* "Q06+" has gone through the SBS rewrite and the zero collapse, and has
\* been normalised a second time
C1_Witness ==
    /\ npc = "twice"
    /\ raw_route = <<"Q","0","6","+">>
    /\ norm1.id = <<"Q","6","-","S","B","S">>

\* The ordered rules of the classifier contract, case-insensitively
CIStartsWith(s, p) ==
    Len(s) >= Len(p) /\ \A i \in 1..Len(p) : Upper(s[i]) = Upper(p[i])

ExpressMarkers == { <<"B","X","M">>, <<"Q","M">>, <<"B","M">>, <<"S","I","M">>, <<"X">> }

RuleName(rt) ==
    IF rt.t = "None" \/ rt.v = <<>> THEN "Unknown"
    ELSE IF \E m \in ExpressMarkers : CIStartsWith(rt.v, m) THEN "Express"
    ELSE IF CIStartsWith(rt.v, <<"B","X">>) THEN "Bronx"
    ELSE IF CIStartsWith(rt.v, <<"M">>) THEN "Manhattan"
    ELSE IF CIStartsWith(rt.v, <<"B">>) THEN "Brooklyn"
    ELSE IF CIStartsWith(rt.v, <<"Q">>) THEN "Queens"
    ELSE IF CIStartsWith(rt.v, <<"S">>) THEN "Staten Island"
    ELSE "Unknown"

\* The borough colour table of the glossary
GlossaryColor(nm) ==
    CASE nm = "Manhattan" -> "#1e40af"
      [] nm = "Bronx" -> "#2563eb"
      [] nm = "Queens" -> "#3b82f6"
      [] nm = "Brooklyn" -> "#60a5fa"
      [] nm = "Staten Island" -> "#93c5fd"
      [] nm = "Express" -> "#8b5cf6"
      [] nm = "Unknown" -> "#6b7280"
      [] OTHER -> "none"

NameOf(s) == get_borough_from_route(PyStr(s)).name

\* C2: get_borough_from_route is total over strings and equals first-match
\* evaluation of the ordered rules, case-insensitively; every input returns
\* one (name, color) pair with the colour of the fixed table, and never
\* raises; Bx12 is Bronx, BxM4 Express, X27 Express, S54 Staten Island, Z1
\* Unknown.
C2_ClassifierRules ==
    /\ kpc = "done" =>
         /\ ~classification.raises
         /\ classification.name = RuleName(route)
         /\ classification.color = GlossaryColor(classification.name)
    /\ NameOf(<<"B","x","1","2">>) = "Bronx"
    /\ NameOf(<<"B","x","M","4">>) = "Express"
    /\ NameOf(<<"X","2","7">>) = "Express"
    /\ NameOf(<<"S","5","4">>) = "Staten Island"
    /\ NameOf(<<"Z","1">>) = "Unknown"

\* a lower-case Bronx express code has been classified
C2_Witness ==
    /\ kpc = "done"
    /\ route = PyStr(<<"b","x","M">>)
    /\ classification.name = "Express"

\* the point counts of the shapes stored for a route at line 88, in any folder
MappedLens(route_id) ==
    {Len(mapped[i].coords) : i \in {j \in 1..Len(mapped) : mapped[j].route_id = route_id}}

FirstLongestMapped(route_id) ==
    LET idx == {j \in 1..Len(mapped) : mapped[j].route_id = route_id}
        best == CHOOSE i \in idx :
                  /\ \A j \in idx : Len(mapped[j].coords) <= Len(mapped[i].coords)
                  /\ \A j \in idx : j < i => Len(mapped[j].coords) < Len(mapped[i].coords)
    IN  mapped[best].coords

\* C3: for every canonical route id the emitted geometry is the longest of
\* all shapes mapped to that route id in any processed folder, also when the
\* same shape_id occurs in more than one folder; on a tie the first shape
\* encountered is emitted.
C3_LongestOfAllMapped ==
    cpc = "done" =>
      \A i \in 1..Len(features) :
        /\ \A l \in MappedLens(features[i].route_id) : l <= Len(features[i].coordinates)
        /\ features[i].coordinates = FirstLongestMapped(features[i].route_id)

\* the rows read so far from the shapes.txt of the current folder
CurrentRows == SelectSeq(rows_read, LAMBDA r : r.folder = folder)

ValidRow(r) == r.lat.k = "num" /\ r.lng.k = "num" /\ r.seq.k = "num"

PointsOf(sid) ==
    LET rs == SelectSeq(CurrentRows, LAMBDA r : r.shape_id = sid /\ ValidRow(r))
    IN  [i \in 1..Len(rs) |-> [seq |-> rs[i].seq.val, lng |-> rs[i].lng.val,
                                lat |-> rs[i].lat.val]]

\* the sequence number of the row a coordinate pair came from
SeqOfCoord(c) == rows_read[c[1]].seq.val

\* C9: during shapes.txt ingestion a row with a non-numeric or missing
\* latitude, longitude or sequence is skipped alone: ingestion goes on, the
\* other valid rows of the shape still contribute their points, emitted in
\* ascending sequence order, and a shape with zero valid rows is absent from
\* the shape map and never selected.
C9_BadRowSkippedAlone ==
    /\ cpc # "crashed"
    /\ cpc = "shapes" =>
         \A sid \in ShapeIds :
           IF PointsOf(sid) = <<>> THEN ~ODHas(shape_points, sid)
           ELSE ODHas(shape_points, sid) /\ ODGet(shape_points, sid) = PointsOf(sid)
    /\ \A i \in 1..Len(mapped) :
         /\ mapped[i].coords # <<>>
         /\ \A a, b \in 1..Len(mapped[i].coords) :
              a < b => SeqOfCoord(mapped[i].coords[a]) <= SeqOfCoord(mapped[i].coords[b])

\* a vehicle record with a position
HasPosition(a) ==
    /\ a.Latitude.t = "float" /\ a.Latitude.v # <<"0",".","0">>
    /\ a.Longitude.t = "float" /\ a.Longitude.v # <<"0",".","0">>

\* a vehicle record one of whose fields has an unexpected type: a non-string
\* VehicleRef, a non-string PublishedLineName element, a malformed OnwardCalls
LocalFailure(a) ==
    \/ a.VehicleRef.t \notin {"absent", "str"}
    \/ /\ a.PublishedLineName.t = "list"
       /\ a.PublishedLineName.v # <<>>
       /\ a.PublishedLineName.v[1].t = "int"
       /\ a.PublishedLineName.v[1].v # <<"0">>
    \/ a.OnwardCalls.t = "str"
    \/ /\ a.OnwardCalls.t = "dict"
       /\ a.OnwardCalls.v # <<>>
       /\ \E i \in 1..3 : /\ i <= Len(a.OnwardCalls.v[1].v)
                          /\ a.OnwardCalls.v[1].v[i].t # "dict"

\* C4 as stated: a failure local to one vehicle record skips only that
\* vehicle; the run is not aborted and the other vehicles are returned in a
\* 200 response. Every response given after the loop was entered is then 200.
C4_VehicleFailureSkipsOne ==
    (lpc = "returned" /\ n > 0) => response.statusCode = 200

\* C4 amended: a vehicle record with a position whose processing raises is
\* not isolated: the one top-level handler ends the run at that record with
\* the 500 error response, which holds the error only and no bus.
C4_VehicleFailureAborts ==
    (n > 0 /\ HasPosition(activity) /\ LocalFailure(activity)) =>
      /\ lpc = "returned"
      /\ response.statusCode = 500
      /\ response.keys = {"error"}
      /\ response.buses = <<>>

\* a good vehicle was collected, then a vehicle with a non-string VehicleRef
\* ended the run
C4_Witness ==
    /\ lpc = "returned" /\ n = 2
    /\ Len(buses) = 1
    /\ activity.VehicleRef = PyInt(<<"7">>)
    /\ HasPosition(activity)
    /\ response.statusCode = 500

\* C5: every invocation ends by returning a response and never raises to
\* the caller; on any failure the response is a structured error with a
\* non-success status and no buses or counts; only a fully processed
\* snapshot gives the 200 response with buses, total_count, borough_counts
\* and route_counts.
C5_AlwaysAResponse ==
    /\ lpc \in {"start", "call", "loop", "returned"}
    /\ lpc # "returned" => (response = NoResponse /\ ENABLED NextLambda)
    /\ lpc = "returned" =>
         \/ /\ response.statusCode = 500
            /\ response.keys = {"error"}
            /\ response.error # ""
            /\ response.buses = <<>> /\ response.total_count = 0
            /\ response.borough_counts = <<>> /\ response.route_counts = <<>>
         \/ /\ response.statusCode = 200
            /\ response.keys = {"buses", "total_count", "borough_counts", "route_counts"}
            /\ response.buses = buses /\ response.total_count = Len(buses)
            /\ net_calls = 1
            /\ ~(n > 0 /\ HasPosition(activity) /\ LocalFailure(activity))

\* the upstream call failed and the error response was returned
C5_Witness ==
    /\ lpc = "returned" /\ net_calls = 1 /\ n = 0
    /\ response.statusCode = 500 /\ response.error = "HTTPError"

\* C6: with MTA_API_KEY absent or empty the configuration-error response is
\* returned without any network call; the key check precedes the outbound
\* call, and at most one outbound call is made.
C6_KeyCheckThenOneCall ==
    /\ net_calls <= 1
    /\ lpc = "start" => net_calls = 0
    /\ (api_key.t = "None" \/ api_key.v = <<>>) =>
         /\ net_calls = 0
         /\ lpc \in {"start", "returned"}
         /\ lpc = "returned" => response = ErrorResponse("API key not configured")

\* an empty key has been answered with the configuration error
C6_Witness ==
    /\ lpc = "returned" /\ api_key = PyStr(<<>>)
    /\ response.error = "API key not configured" /\ net_calls = 0

\* the route code the claim gives for a PublishedLineName field
ClaimedLine(x) ==
    IF x.t = "list" /\ x.v # <<>> THEN x.v[1]
    ELSE IF x.t = "str" THEN x
    ELSE PyStr(UnknownStr)

\* C7: PublishedLineName as a non-empty list yields its first element, a
\* single string yields that value, and the literal 'Unknown' is substituted
\* whenever the field is absent or of an unexpected shape (empty list too).
C7_PublishedLineName ==
    (lpc = "loop" /\ n > 0 /\ HasPosition(activity)) =>
      /\ buses # <<>>
      /\ buses[Len(buses)].route = ClaimedLine(activity.PublishedLineName)

\* a vehicle record without a position
NoPosition(a) ==
    \/ a.Latitude.t \in {"absent", "None"} \/ a.Latitude.v = <<"0",".","0">>
    \/ a.Longitude.t \in {"absent", "None"} \/ a.Longitude.v = <<"0",".","0">>

\* C8: processing a vehicle activity record whose latitude or longitude is
\* missing or falsy leaves buses, borough_counts and route_counts unchanged,
\* and the loop goes on.
C8_NoPositionNoEffect ==
    [][(lpc = "loop" /\ n' = n + 1 /\ NoPosition(activity')) =>
         (UNCHANGED <<buses, borough_counts, route_counts, response>> /\ lpc' = "loop")]_vars

\* a record without longitude was processed after a bus was collected, and
\* nothing was added for it
C8_Witness ==
    /\ lpc = "loop" /\ n = 2
    /\ activity.Longitude = PyAbsent
    /\ Len(buses) = 1 /\ Len(borough_counts) = 1 /\ borough_counts[1].val = 1

RECURSIVE SumVals(_)
SumVals(od) == IF od = <<>> THEN 0 ELSE od[1].val + SumVals(Tail(od))

CountsConsistent(bs, bc, rc) ==
    /\ Len(bs) = SumVals(bc)
    /\ Len(bs) = SumVals(rc)
    /\ \A i \in 1..Len(bc) : bc[i].val >= 1
    /\ \A i \in 1..Len(rc) : rc[i].val >= 1 /\ ODHas(bc, rc[i].key[1])

\* C10: after any prefix of the vehicle activity list the number of buses
\* equals the sum of borough_counts and the sum of route_counts, every count
\* is at least 1 and the borough of each route_counts key is a key of
\* borough_counts; in a 200 response total_count equals both sums.
C10_CountsConsistent ==
    /\ lpc = "loop" => CountsConsistent(buses, borough_counts, route_counts)
    /\ response.statusCode = 200 =>
         /\ response.total_count = SumVals(response.borough_counts)
         /\ response.total_count = SumVals(response.route_counts)
         /\ CountsConsistent(response.buses, response.borough_counts,
                             response.route_counts)

\* three buses of two boroughs, two of them on the same route, were returned
C10_Witness ==
    /\ response.statusCode = 200
    /\ response.total_count = 3
    /\ Len(response.borough_counts) = 2
    /\ \E i \in 1..Len(response.route_counts) : response.route_counts[i].val = 2

====
